---- MODULE Spec2Model ----
(***************************************************************************)
(* Model of the Bitcoin Lightning pay-per-SMS tool server (src/server.py). *)
(*                                                                         *)
(* Every tool is an asyncio coroutine.  A coroutine runs without           *)
(* interruption between two awaits, so one action of the model is one      *)
(* stretch of a handler between two suspension points: the awaited         *)
(* ctx.info / ctx.error notifications and the awaited httpx request.       *)
(* twilio.messages.create is a blocking call, not an await: it is part of  *)
(* the stretch that calls it.  The charge provider (OpenNode), the         *)
(* delivery provider (Twilio) and the callers are the environment.         *)
(***************************************************************************)
EXTENDS Integers, Sequences, FiniteSets, TLC

\* ------------------------------------------------------------------ bounds
MaxProcs == 2      \* tool invocations that may be in progress at once
MaxCalls == 3      \* tool invocations started in one behaviour
MaxCharges == 2    \* charge ids the provider can hand out
MaxSendFailures == 1   \* sends Twilio rejects before it accepts them all
MaxLiveCreates == 1    \* create_sms_payment calls beside the endless retries

Procs == 1..MaxProcs
ChargeIds == 1..MaxCharges

\* ------------------------------------------------------ environment values
Unset == ""
Users == {"anonymous"}
Phones == {"+15551234567"}
Messages == {"Hello"}
NoSid == 0
NoChargeId == 0
None == "None"

VARIABLES
    pending_sms,    \* the registry dict: charge id -> reference to a record
    heap,           \* the record dicts, by reference
    env,            \* the process environment (os.getenv)
    charge_status,  \* OpenNode: the status of each charge, "absent" if none
    twilio_log,     \* Twilio: every messages.create call, in order
    inv,            \* the tool invocations in progress, one per slot
    returned,       \* the latest result or error handed back to a caller
    ncalls          \* the number of invocations started so far

vars == <<pending_sms, heap, env, charge_status, twilio_log, inv, returned, ncalls>>

\* ---------------------------------------------------------------- helpers
NoResp == [kind |-> "none"]
NoResult == [kind |-> "none"]
NoExc == [type |-> "none", msg |-> "none"]

Idle ==
    [op |-> "none", pc |-> "idle", ctx |-> FALSE,
     charge_id |-> NoChargeId, user_id |-> "anonymous",
     phone_number |-> "", message |-> "",
     price |-> 0, order_id |-> <<>>, sms_request |-> 0,
     resp |-> NoResp, exc |-> NoExc, result |-> NoResult,
     sms |-> NoSid, from_number |-> Unset,
     nreq |-> 0, nsend |-> 0, wrote |-> FALSE]

\* The record a registry key refers to.
Rec(c) == heap[pending_sms[c]]

\* DictSet, had the registry been replaced by a dict holding the new key only.
DictSet_Only(d, k, v) == [x \in {k} |-> v]

\* DictSet, had the assignment bound every key of the dict to the new value.
DictSet_Rebinds(d, k, v) == [x \in DOMAIN d \cup {k} |-> v]

\* dict.__setitem__: d[k] = v adds the key or replaces what it refers to
DictSet(d, k, v) == [x \in DOMAIN d \cup {k} |-> IF x = k THEN v ELSE d[x]]

\* Known, had the handlers skipped the membership test.
Known_Always(c) == TRUE

\* dict.__contains__
Known(c) == c \in DOMAIN pending_sms

\* The invocation raises e out of the handler.
Failed(r, e) == [r EXCEPT !.pc = "done", !.result = [kind |-> "error", exc |-> e]]

\* The invocation returns res.
Returned(r, res) == [r EXCEPT !.pc = "done", !.result = res]

\* Raised, had the handlers issued their request a second time when the
\* first attempt failed.
Raised_RetriesOnce(r, e) ==
    IF r.pc = "await_http" /\ r.nreq < 2
    THEN [r EXCEPT !.pc = "await_http", !.resp = [kind |-> "none"], !.nreq = @ + 1]
    ELSE IF r.ctx THEN [r EXCEPT !.pc = "await_error", !.exc = e]
    ELSE [r EXCEPT !.pc = "done", !.result = [kind |-> "error", exc |-> e]]

\* An exception caught by "except Exception": logged through ctx.error when
\* there is a ctx (a suspension point), then raised.
Raised(r, e) ==
    IF r.ctx THEN [r EXCEPT !.pc = "await_error", !.exc = e]
    ELSE Failed(r, e)

\* What the caller gets back from invocation r, with what r did on the way.
Outcome(r) ==
    [op |-> r.op, charge_id |-> r.charge_id, result |-> r.result,
     nreq |-> r.nreq, nsend |-> r.nsend, wrote |-> r.wrote]

\* The invocation in slot p goes on as r: it is suspended again, or it is over
\* and its result goes back to the caller, which frees the slot.
Step(p, r) ==
    IF r.pc = "done"
    THEN /\ inv' = [inv EXCEPT ![p] = Idle]
         /\ returned' = Outcome(r)
    ELSE /\ inv' = [inv EXCEPT ![p] = r]
         /\ UNCHANGED returned

\* A tool call can start in slot p: the lowest free slot, while the budget of
\* calls lasts.
CanCall(p) ==
    /\ inv[p].pc = "idle"
    /\ \A q \in Procs : q < p => inv[q].pc # "idle"
    /\ ncalls < MaxCalls

\* The arguments of a call on a charge id.
Args(op, charge_id, ctx) ==
    [Idle EXCEPT !.op = op, !.pc = "start", !.ctx = ctx, !.charge_id = charge_id]

\* "if ctx: await ctx.info(...)" at the head of a handler
InfoOrGo(r, body) == IF r.ctx THEN [r EXCEPT !.pc = "await_info"] ELSE body

\* ------------------------------------------------------------- exceptions
NotFound(c) == [type |-> "ValueError", msg |-> <<"Charge", c, "not found">>]
ApiKeyNotSet == [type |-> "ValueError", msg |-> <<"OPENNODE_API_KEY not set">>]
TwilioCredentialsNotSet == [type |-> "ValueError", msg |-> <<"TWILIO credentials not set">>]
TwilioPhoneNotSet == [type |-> "ValueError", msg |-> <<"TWILIO_PHONE_NUMBER not set">>]
\* raise ValueError(f"OpenNode API error: {status_code} - {text}")
UpstreamValueError(resp) ==
    [type |-> "ValueError",
     msg |-> <<"OpenNode API error:", resp.status_code, resp.text>>]
\* what response.raise_for_status() raises
HTTPStatusError(resp) ==
    [type |-> "httpx.HTTPStatusError", msg |-> <<resp.status_code>>]
TransportError == [type |-> "httpx.TransportError", msg |-> <<"transport">>]
KeyError(k) == [type |-> "KeyError", msg |-> <<k>>]
TwilioRestException == [type |-> "TwilioRestException", msg |-> <<"send failed">>]
ClientError == [type |-> "aiohttp.ClientError", msg |-> <<"transport">>]

\* The environment of a process started with every variable of the module
\* docstring set.
FullEnv ==
    [OPENNODE_API_KEY |-> "key", TWILIO_ACCOUNT_SID |-> "AC1",
     TWILIO_AUTH_TOKEN |-> "tok", TWILIO_PHONE_NUMBER |-> "+15550000000",
     SMS_PRICE_USD |-> 10]

\* The state after the module is loaded, with every credential configured.
Init ==
    /\ pending_sms = << >>
    /\ heap = << >>
    /\ env = FullEnv
    /\ charge_status = [c \in ChargeIds |-> "absent"]
    /\ twilio_log = << >>
    /\ inv = [p \in Procs |-> Idle]
    /\ returned = Outcome(Idle)
    /\ ncalls = 0

\* ------------------------------------------------------ the charge provider
\* OpenNode answers a GET /v1/charge/{id} that is in flight.  The answer
\* carries the status the charge has when the provider handles the request;
\* the coroutine may read it later.
GetResponses(c) ==
    IF charge_status[c] = "absent"
    THEN {[kind |-> "http_error", status_code |-> 404, text |-> "not found"]}
    ELSE {[kind |-> "ok", status |-> charge_status[c], missing |-> m,
           paid_at |-> IF charge_status[c] = "paid" THEN "t_paid" ELSE None] :
             m \in {"none", "status", "created_at"}}
         \cup {[kind |-> "http_error", status_code |-> 500, text |-> "oops"]}

OpenNodeGetCharge(p) ==
    /\ inv[p].op \in {"pay_and_send_sms", "check_charge_status", "check_payment"}
    /\ inv[p].pc = "await_http"
    /\ inv[p].resp = NoResp
    /\ \E resp \in GetResponses(inv[p].charge_id) :
          inv' = [inv EXCEPT ![p].resp = resp]
    /\ UNCHANGED <<pending_sms, heap, env, charge_status, twilio_log, returned, ncalls>>

\* The Lightning invoice OpenNode issues for a charge.
InvoiceOf(c) == <<"l", "n", IF c % 2 = 1 THEN "/" ELSE "1">>

\* OpenNode answers a POST /v1/charges that is in flight: it creates a charge
\* under an id it has not used before, or it rejects the request.
OpenNodeCreateCharge(p) ==
    /\ inv[p].op = "create_sms_payment"
    /\ inv[p].pc = "await_http"
    /\ inv[p].resp = NoResp
    /\ \/ \E c \in ChargeIds,
             m \in {"none", "id", "hosted_checkout_url", "expires_at"} :
            /\ charge_status[c] = "absent"
            /\ charge_status' = [charge_status EXCEPT ![c] = "unpaid"]
            /\ inv' = [inv EXCEPT ![p].resp =
                         [kind |-> "ok", id |-> c, payreq |-> InvoiceOf(c),
                          hosted_checkout_url |-> <<"checkout", c>>,
                          expires_at |-> "t_exp", missing |-> m]]
       \/ /\ inv' = [inv EXCEPT ![p].resp =
                       [kind |-> "http_error", status_code |-> 500, text |-> "oops"]]
          /\ UNCHANGED charge_status
    /\ UNCHANGED <<pending_sms, heap, env, twilio_log, returned, ncalls>>

\* OpenNode answers a POST /v1/charges that is in flight with the id of a
\* charge it has issued before.
OpenNodeRepeatCharge(p) ==
    /\ inv[p].op = "create_sms_payment"
    /\ inv[p].pc = "await_http"
    /\ inv[p].resp = NoResp
    /\ \E c \in ChargeIds :
          /\ charge_status[c] # "absent"
          /\ inv' = [inv EXCEPT ![p].resp =
                       [kind |-> "ok", id |-> c, payreq |-> InvoiceOf(c),
                        hosted_checkout_url |-> <<"checkout", c>>,
                        expires_at |-> "t_exp", missing |-> "none"]]
    /\ UNCHANGED <<pending_sms, heap, env, charge_status, twilio_log, returned, ncalls>>

\* The request or its response is lost, or the 30 second timeout expires.
TransportFault(p) ==
    /\ inv[p].pc = "await_http"
    /\ inv[p].resp.kind # "fault"
    /\ inv' = [inv EXCEPT ![p].resp = [kind |-> "fault"]]
    /\ UNCHANGED <<pending_sms, heap, env, charge_status, twilio_log, returned, ncalls>>

\* The payer pays the invoice.
ChargePaid(c) ==
    /\ charge_status[c] = "unpaid"
    /\ charge_status' = [charge_status EXCEPT ![c] = "paid"]
    /\ UNCHANGED <<pending_sms, heap, env, twilio_log, inv, returned, ncalls>>

\* The invoice expires unpaid.
ChargeExpired(c) ==
    /\ charge_status[c] = "unpaid"
    /\ charge_status' = [charge_status EXCEPT ![c] = "expired"]
    /\ UNCHANGED <<pending_sms, heap, env, twilio_log, inv, returned, ncalls>>

\* ---------------------------------------------------------- shared steps
\* "await ctx.error(...)" has returned: the handler raises.
ErrorLogged(p) ==
    /\ inv[p].pc = "await_error"
    /\ Step(p, Failed(inv[p], inv[p].exc))
    /\ UNCHANGED <<pending_sms, heap, env, charge_status, twilio_log, ncalls>>

\* get_opennode_headers() succeeds
HasApiKey == env.OPENNODE_API_KEY # Unset

\* The handler issues its HTTP request and suspends on it.
Requested(r) == [r EXCEPT !.pc = "await_http", !.resp = NoResp, !.nreq = @ + 1]

\* -------------------------------------------------------- create_sms_payment
\* lines 118-136: read the price, build the payload, post it
CreateRequest(r) ==
    LET r1 == [r EXCEPT !.price = env.SMS_PRICE_USD,
                        !.order_id = <<"sms", r.user_id,
                                       Cardinality(DOMAIN pending_sms)>>]
    IN  IF HasApiKey THEN Requested(r1) ELSE Raised(r1, ApiKeyNotSet)

\* lines 97-136: the call, up to its first suspension
create_sms_payment(p, phone_number, message, user_id, ctx) ==
    /\ CanCall(p)
    /\ ncalls' = ncalls + 1
    /\ LET r == [Idle EXCEPT !.op = "create_sms_payment", !.pc = "start",
                             !.ctx = ctx, !.phone_number = phone_number,
                             !.message = message, !.user_id = user_id]
       IN  Step(p, InfoOrGo(r, CreateRequest(r)))
    /\ UNCHANGED <<pending_sms, heap, env, charge_status, twilio_log>>

\* lines 116-136: "await ctx.info(Creating SMS payment)" has returned
create_sms_payment_info(p) ==
    /\ inv[p].op = "create_sms_payment"
    /\ inv[p].pc = "await_info"
    /\ Step(p, CreateRequest(inv[p]))
    /\ UNCHANGED <<pending_sms, heap, env, charge_status, twilio_log, ncalls>>

\* lines 145-154: the dict stored under the charge id
NewRecord(r) ==
    [user_id |-> r.user_id,
     phone_number |-> r.phone_number,
     message |-> r.message,
     amount |-> r.price,
     lightning_invoice |-> r.resp.payreq,
     hosted_checkout_url |-> r.resp.hosted_checkout_url,
     status |-> "pending",
     sent |-> FALSE,
     sms_sid |-> NoSid]

\* lines 159-168: the returned dict; reading expires_at may raise KeyError
CreateReturn(r) ==
    IF r.resp.missing = "expires_at"
    THEN Raised(r, KeyError("expires_at"))
    ELSE Returned(r, [kind |-> "created",
                      charge_id |-> r.charge_id,
                      amount |-> r.price,
                      currency |-> "USD",
                      phone_number |-> r.phone_number,
                      lightning_invoice |-> r.resp.payreq,
                      hosted_checkout_url |-> r.resp.hosted_checkout_url,
                      expires_at |-> r.resp.expires_at])

\* lines 137-157 and the handlers of lines 170-178: the response has arrived
create_sms_payment_response(p) ==
    /\ inv[p].op = "create_sms_payment"
    /\ inv[p].pc = "await_http"
    /\ inv[p].resp # NoResp
    /\ LET r == inv[p]
           resp == inv[p].resp
       IN  IF resp.kind = "http_error"
           THEN /\ Step(p, Raised(r, UpstreamValueError(resp)))
                /\ UNCHANGED <<pending_sms, heap>>
           ELSE IF resp.kind = "fault"
           THEN /\ Step(p, Raised(r, TransportError))
                /\ UNCHANGED <<pending_sms, heap>>
           ELSE IF resp.missing \in {"id", "hosted_checkout_url"}
           THEN /\ Step(p, Raised(r, KeyError(resp.missing)))
                /\ UNCHANGED <<pending_sms, heap>>
           ELSE LET r1 == [r EXCEPT !.charge_id = resp.id, !.wrote = TRUE]
                IN  /\ heap' = Append(heap, NewRecord(r))
                    /\ pending_sms' = DictSet(pending_sms, resp.id, Len(heap) + 1)
                    /\ Step(p, IF r.ctx THEN [r1 EXCEPT !.pc = "await_info2"]
                               ELSE CreateReturn(r1))
    /\ UNCHANGED <<env, charge_status, twilio_log, ncalls>>

\* lines 157-168: "await ctx.info(Payment created)" has returned
create_sms_payment_return(p) ==
    /\ inv[p].op = "create_sms_payment"
    /\ inv[p].pc = "await_info2"
    /\ Step(p, CreateReturn(inv[p]))
    /\ UNCHANGED <<pending_sms, heap, env, charge_status, twilio_log, ncalls>>

\* ---------------------------------------------------------- pay_and_send_sms
\* lines 310-320: the lookup, then the status query
PayLookup(r) ==
    IF ~Known(r.charge_id) THEN Failed(r, NotFound(r.charge_id))
    ELSE IF HasApiKey THEN Requested(r)
    ELSE Raised(r, ApiKeyNotSet)

\* lines 294-320: the call, up to its first suspension
pay_and_send_sms(p, charge_id, ctx) ==
    /\ CanCall(p)
    /\ ncalls' = ncalls + 1
    /\ LET r == Args("pay_and_send_sms", charge_id, ctx)
       IN  Step(p, InfoOrGo(r, PayLookup(r)))
    /\ UNCHANGED <<pending_sms, heap, env, charge_status, twilio_log>>

\* lines 308-320: "await ctx.info(Checking payment)" has returned
pay_and_send_sms_info(p) ==
    /\ inv[p].op = "pay_and_send_sms"
    /\ inv[p].pc = "await_info"
    /\ Step(p, PayLookup(inv[p]))
    /\ UNCHANGED <<pending_sms, heap, env, charge_status, twilio_log, ncalls>>

\* IsPaid, had line 327 let no status through.
IsPaid_Never(status) == FALSE

\* IsPaid, had line 327 let every status through.
IsPaid_AnyStatus(status) == TRUE

\* IsPaid, had line 327 tested for "unpaid" instead of "paid".
IsPaid_NotUnpaid(status) == status # "unpaid"

\* line 327
IsPaid(status) == status = "paid"

\* AlreadySent, had line 337 not looked at the flag.
AlreadySent_Never(rec) == FALSE

\* line 337
AlreadySent(rec) == rec.sent

\* lines 328-334
NotPaidReport(charge_id, status) ==
    [kind |-> "report", charge_id |-> charge_id, status |-> status,
     paid |-> FALSE, sms_sent |-> FALSE,
     message |-> <<"Payment not received yet", status>>]

\* lines 370-376
AlreadySentReport(charge_id) ==
    [kind |-> "report", charge_id |-> charge_id, status |-> "completed",
     paid |-> TRUE, sms_sent |-> TRUE,
     message |-> <<"SMS already sent for this payment">>]

\* lines 358-368
SentReport(r) ==
    [kind |-> "report", charge_id |-> r.charge_id, status |-> "completed",
     paid |-> TRUE, sms_sent |-> TRUE, sms_sid |-> r.sms,
     to |-> heap[r.sms_request].phone_number, from |-> r.from_number,
     paid_at |-> r.resp.paid_at,
     message |-> <<"Payment received and SMS sent successfully!">>]

\* MarkAsSent, had line 353 been left out.
MarkAsSent_NoReceipt(rec, sid) ==
    [rec EXCEPT !.sent = TRUE, !.status = "completed"]

\* lines 351-353
MarkAsSent(rec, sid) ==
    [rec EXCEPT !.sent = TRUE, !.status = "completed", !.sms_sid = sid]

\* AfterSend, had the record been marked before the send was known to succeed.
AfterSend_CommitAlways(rec, ok, sid) ==
    [rec EXCEPT !.sent = TRUE, !.status = "completed", !.sms_sid = sid]

\* lines 344-353: the record after twilio.messages.create returned (ok) or
\* raised (not ok)
AfterSend(rec, ok, sid) == IF ok THEN MarkAsSent(rec, sid) ELSE rec

\* TwilioConfigError, had pay_and_send_sms not tested the sender number.
TwilioConfigError_NoPhoneCheck ==
    IF env.TWILIO_ACCOUNT_SID = Unset \/ env.TWILIO_AUTH_TOKEN = Unset
    THEN TwilioCredentialsNotSet
    ELSE NoExc

\* lines 66-72 and 339-342
TwilioConfigError ==
    IF env.TWILIO_ACCOUNT_SID = Unset \/ env.TWILIO_AUTH_TOKEN = Unset
    THEN TwilioCredentialsNotSet
    ELSE IF env.TWILIO_PHONE_NUMBER = Unset THEN TwilioPhoneNotSet
    ELSE NoExc

\* lines 321-386: the response of the status query has arrived; config_error is
\* what reading the Twilio configuration raises (NoExc if nothing) and
\* send_results the outcomes twilio.messages.create can have
PayResponse(p, config_error, send_results) ==
    /\ inv[p].op = "pay_and_send_sms"
    /\ inv[p].pc = "await_http"
    /\ inv[p].resp # NoResp
    /\ LET resp == inv[p].resp
           c == inv[p].charge_id
           r == inv[p]
           r0 == [r EXCEPT !.sms_request =
                     IF c \in DOMAIN pending_sms THEN pending_sms[c] ELSE 0]
       IN  IF resp.kind = "http_error"
           THEN /\ Step(p, Raised(r, UpstreamValueError(resp)))
                /\ UNCHANGED <<heap, twilio_log>>
           ELSE IF resp.kind = "fault"
           THEN /\ Step(p, Raised(r, TransportError))
                /\ UNCHANGED <<heap, twilio_log>>
           ELSE IF resp.missing = "status"
           THEN /\ Step(p, Raised(r, KeyError("status")))
                /\ UNCHANGED <<heap, twilio_log>>
           ELSE IF c \notin DOMAIN pending_sms
           THEN /\ Step(p, Raised(r, KeyError(c)))
                /\ UNCHANGED <<heap, twilio_log>>
           ELSE IF ~IsPaid(resp.status)
           THEN /\ Step(p, Returned(r0, NotPaidReport(c, resp.status)))
                /\ UNCHANGED <<heap, twilio_log>>
           ELSE IF AlreadySent(heap[r0.sms_request])
           THEN /\ Step(p, Returned(r0, AlreadySentReport(c)))
                /\ UNCHANGED <<heap, twilio_log>>
           ELSE IF config_error # NoExc
           THEN /\ Step(p, Raised(r0, config_error))
                /\ UNCHANGED <<heap, twilio_log>>
           ELSE \E ok \in send_results :
                  LET sid == IF ok THEN Len(twilio_log) + 1 ELSE NoSid
                      r1 == [r0 EXCEPT !.from_number = env.TWILIO_PHONE_NUMBER,
                                       !.nsend = @ + 1, !.sms = sid]
                  IN  /\ twilio_log' = Append(twilio_log,
                            [charge_id |-> c, op |-> r.op, status |-> resp.status,
                             body |-> heap[r0.sms_request].message,
                             to |-> heap[r0.sms_request].phone_number,
                             from |-> env.TWILIO_PHONE_NUMBER,
                             ok |-> ok, sid |-> sid])
                      /\ heap' = [heap EXCEPT ![pending_sms[c]] = AfterSend(@, ok, sid)]
                      /\ Step(p, IF ~ok THEN Raised(r1, TwilioRestException)
                                 ELSE IF r.ctx THEN [r1 EXCEPT !.pc = "await_info2"]
                                 ELSE Returned(r1, SentReport(r1)))
    /\ UNCHANGED <<pending_sms, env, charge_status, ncalls>>

\* lines 321-386 with get_twilio_client() and the test of lines 339-342
pay_and_send_sms_response(p) == PayResponse(p, TwilioConfigError, BOOLEAN)

\* lines 356-368: "await ctx.info(SMS sent successfully)" has returned
pay_and_send_sms_return(p) ==
    /\ inv[p].op = "pay_and_send_sms"
    /\ inv[p].pc = "await_info2"
    /\ Step(p, Returned(inv[p], SentReport(inv[p])))
    /\ UNCHANGED <<pending_sms, heap, env, charge_status, twilio_log, ncalls>>

\* -------------------------------------------------------- check_charge_status
\* lines 403-414: the lookup, the working reference, then the status query
CheckLookup(r) ==
    IF ~Known(r.charge_id) THEN Failed(r, NotFound(r.charge_id))
    ELSE IF r.charge_id \notin DOMAIN pending_sms
    THEN Failed(r, KeyError(r.charge_id))
    ELSE LET r1 == [r EXCEPT !.sms_request = pending_sms[r.charge_id]]
         IN  IF HasApiKey THEN Requested(r1) ELSE Raised(r1, ApiKeyNotSet)

\* lines 390-414: the call, up to its first suspension
check_charge_status(p, charge_id, ctx) ==
    /\ CanCall(p)
    /\ ncalls' = ncalls + 1
    /\ Step(p, CheckLookup(Args("check_charge_status", charge_id, ctx)))
    /\ UNCHANGED <<pending_sms, heap, env, charge_status, twilio_log>>

\* StatusReport, had it read the amount from the configuration.
StatusReport_CurrentPrice(r) ==
    [kind |-> "status", charge_id |-> r.charge_id,
     payment_status |-> r.resp.status,
     sms_sent |-> heap[r.sms_request].sent,
     phone_number |-> heap[r.sms_request].phone_number,
     amount |-> env.SMS_PRICE_USD,
     created_at |-> "t_created",
     paid_at |-> r.resp.paid_at]

\* StatusReport, had it inferred delivery from the provider's status instead
\* of reading the record's sent flag.
StatusReport_PaidMeansSent(r) ==
    [kind |-> "status", charge_id |-> r.charge_id,
     payment_status |-> r.resp.status,
     sms_sent |-> (r.resp.status = "paid"),
     phone_number |-> heap[r.sms_request].phone_number,
     amount |-> heap[r.sms_request].amount,
     created_at |-> "t_created",
     paid_at |-> r.resp.paid_at]

\* lines 418-426
StatusReport(r) ==
    [kind |-> "status", charge_id |-> r.charge_id,
     payment_status |-> r.resp.status,
     sms_sent |-> heap[r.sms_request].sent,
     phone_number |-> heap[r.sms_request].phone_number,
     amount |-> heap[r.sms_request].amount,
     created_at |-> "t_created",
     paid_at |-> r.resp.paid_at]

\* check_charge_status_response, had it stored the provider's status in the
\* record it reports on.
check_charge_status_response_Stores(p) ==
    /\ inv[p].op = "check_charge_status"
    /\ inv[p].pc = "await_http"
    /\ inv[p].resp # NoResp
    /\ LET r == inv[p]
           resp == inv[p].resp
       IN  /\ Step(p, IF resp.kind = "http_error" THEN Raised(r, HTTPStatusError(resp))
                      ELSE IF resp.kind = "fault" THEN Raised(r, TransportError)
                      ELSE IF resp.missing # "none" THEN Raised(r, KeyError(resp.missing))
                      ELSE Returned(r, StatusReport(r)))
           /\ heap' = IF resp.kind = "ok" /\ resp.missing = "none"
                      THEN [heap EXCEPT ![r.sms_request].status = resp.status]
                      ELSE heap
    /\ UNCHANGED <<pending_sms, env, charge_status, twilio_log, ncalls>>

\* lines 415-431: the response of the status query has arrived
check_charge_status_response(p) ==
    /\ inv[p].op = "check_charge_status"
    /\ inv[p].pc = "await_http"
    /\ inv[p].resp # NoResp
    /\ LET r == inv[p]
           resp == inv[p].resp
       IN  Step(p, IF resp.kind = "http_error" THEN Raised(r, HTTPStatusError(resp))
                   ELSE IF resp.kind = "fault" THEN Raised(r, TransportError)
                   ELSE IF resp.missing # "none" THEN Raised(r, KeyError(resp.missing))
                   ELSE Returned(r, StatusReport(r)))
    /\ UNCHANGED <<pending_sms, heap, env, charge_status, twilio_log, ncalls>>

\* ------------------------------------------------- get_sms_qr, ..._with_link
\* urllib.parse.quote(invoice, safe=''): every character outside the
\* unreserved set is percent-encoded
RECURSIVE quote(_)
quote(str) ==
    IF str = << >> THEN << >>
    ELSE (IF Head(str) = "/" THEN <<"%", "2", "F">> ELSE <<Head(str)>>)
         \o quote(Tail(str))

\* lines 205-211
generate_lightning_deep_link(invoice) == <<"lightning:">> \o quote(invoice)

\* lines 75-88
generate_qr_code(data) == [kind |-> "image", format |-> "png", data |-> data]

\* lines 198-202
QrBody(r) ==
    IF ~Known(r.charge_id) THEN Failed(r, NotFound(r.charge_id))
    ELSE IF r.charge_id \notin DOMAIN pending_sms
    THEN Failed(r, KeyError(r.charge_id))
    ELSE Returned(r, generate_qr_code(Rec(r.charge_id).lightning_invoice))

\* lines 182-202: the call, up to its first suspension
get_sms_qr(p, charge_id, ctx) ==
    /\ CanCall(p)
    /\ ncalls' = ncalls + 1
    /\ LET r == Args("get_sms_qr", charge_id, ctx)
       IN  Step(p, InfoOrGo(r, QrBody(r)))
    /\ UNCHANGED <<pending_sms, heap, env, charge_status, twilio_log>>

\* lines 196-202: "await ctx.info(Generating QR)" has returned
get_sms_qr_info(p) ==
    /\ inv[p].op = "get_sms_qr"
    /\ inv[p].pc = "await_info"
    /\ Step(p, QrBody(inv[p]))
    /\ UNCHANGED <<pending_sms, heap, env, charge_status, twilio_log, ncalls>>

\* lines 246-257: the comments in the <script> of the page
ScriptComments ==
    <<"// Try to open via lightning: URI scheme",
      "// On many mobile browsers this will open a wallet",
      "// On load, attempt automatically (useful in mobile webview)">>

\* lines 240-274: the f-string of the page, by what it is built from
html_snippet(comments, deep_link, hosted_checkout) ==
    <<comments, deep_link, hosted_checkout>>

\* lines 226-289
QrLinkBody(r) ==
    IF ~Known(r.charge_id) THEN Failed(r, NotFound(r.charge_id))
    ELSE IF r.charge_id \notin DOMAIN pending_sms
    THEN Failed(r, KeyError(r.charge_id))
    ELSE LET data == Rec(r.charge_id)
             deep_link == generate_lightning_deep_link(data.lightning_invoice)
         IN  Returned(r, [kind |-> "link",
                          deep_link |-> deep_link,
                          hosted_checkout_url |-> data.hosted_checkout_url,
                          mobile_html |-> html_snippet(ScriptComments, deep_link,
                                                       data.hosted_checkout_url)])

\* lines 215-289: the call, up to its first suspension
get_sms_qr_with_link(p, charge_id, ctx) ==
    /\ CanCall(p)
    /\ ncalls' = ncalls + 1
    /\ LET r == Args("get_sms_qr_with_link", charge_id, ctx)
       IN  Step(p, InfoOrGo(r, QrLinkBody(r)))
    /\ UNCHANGED <<pending_sms, heap, env, charge_status, twilio_log>>

\* lines 224-289: "await ctx.info(Generating QR + link)" has returned
get_sms_qr_with_link_info(p) ==
    /\ inv[p].op = "get_sms_qr_with_link"
    /\ inv[p].pc = "await_info"
    /\ Step(p, QrLinkBody(inv[p]))
    /\ UNCHANGED <<pending_sms, heap, env, charge_status, twilio_log, ncalls>>

\* ------------------------------------------------------------ specification
Next ==
    \/ \E p \in Procs, ctx \in BOOLEAN :
          \/ \E ph \in Phones, m \in Messages, u \in Users :
                create_sms_payment(p, ph, m, u, ctx)
          \/ \E c \in ChargeIds :
                \/ get_sms_qr(p, c, ctx)
                \/ get_sms_qr_with_link(p, c, ctx)
                \/ pay_and_send_sms(p, c, ctx)
                \/ check_charge_status(p, c, ctx)
    \/ \E p \in Procs :
          \/ create_sms_payment_info(p)
          \/ create_sms_payment_response(p)
          \/ create_sms_payment_return(p)
          \/ get_sms_qr_info(p)
          \/ get_sms_qr_with_link_info(p)
          \/ pay_and_send_sms_info(p)
          \/ pay_and_send_sms_response(p)
          \/ pay_and_send_sms_return(p)
          \/ check_charge_status_response(p)
          \/ ErrorLogged(p)
          \/ OpenNodeCreateCharge(p)
          \/ OpenNodeGetCharge(p)
          \/ TransportFault(p)
    \/ \E c \in ChargeIds :
          \/ ChargePaid(c)
          \/ ChargeExpired(c)

Spec == Init /\ [][Next]_vars

\* ------------------------------------------- OpenNodeClient (src/payment.py)
\* payment.py lines 45-53: the call, up to its suspension on session.get
check_payment(p, charge_id) ==
    /\ CanCall(p)
    /\ ncalls' = ncalls + 1
    /\ Step(p, Requested(Args("check_payment", charge_id, FALSE)))
    /\ UNCHANGED <<pending_sms, heap, env, charge_status, twilio_log>>

\* payment.py lines 54-58: the response has arrived
check_payment_response(p) ==
    /\ inv[p].op = "check_payment"
    /\ inv[p].pc = "await_http"
    /\ inv[p].resp # NoResp
    /\ LET r == inv[p]
           resp == inv[p].resp
       IN  Step(p, IF resp.kind = "fault" THEN Failed(r, ClientError)
                   ELSE IF resp.kind = "http_error"
                   THEN Returned(r, [kind |-> "bool", value |-> FALSE])
                   ELSE IF resp.missing = "status" THEN Failed(r, KeyError("status"))
                   ELSE Returned(r, [kind |-> "bool",
                                     value |-> (resp.status = "paid")]))
    /\ UNCHANGED <<pending_sms, heap, env, charge_status, twilio_log, ncalls>>

\* The server, and callers of the OpenNodeClient beside it.
NextClient ==
    \/ Next
    \/ \E p \in Procs, c \in ChargeIds : check_payment(p, c)
    \/ \E p \in Procs : check_payment_response(p)

SpecClient == Init /\ [][NextClient]_vars

\* ------------------------------------------------------- the configuration
\* The variables get_opennode_headers, get_twilio_client and pay_and_send_sms
\* read with os.getenv at every call.
CredentialNames ==
    {"OPENNODE_API_KEY", "TWILIO_ACCOUNT_SID", "TWILIO_AUTH_TOKEN",
     "TWILIO_PHONE_NUMBER"}

\* A credential disappears from the environment of the running process; the
\* next os.getenv sees it absent.
Unconfigured(k) ==
    /\ env = FullEnv
    /\ env' = [env EXCEPT ![k] = Unset]
    /\ UNCHANGED <<pending_sms, heap, charge_status, twilio_log, inv, returned, ncalls>>

\* The price per message the operator may configure instead of FullEnv's.
RaisedPrice == 25

\* lines 50-52: SMS_PRICE_USD is set to another value; the next
\* get_sms_price() returns it.
PriceChanged ==
    /\ env.SMS_PRICE_USD = FullEnv.SMS_PRICE_USD
    /\ env' = [env EXCEPT !.SMS_PRICE_USD = RaisedPrice]
    /\ UNCHANGED <<pending_sms, heap, charge_status, twilio_log, inv, returned, ncalls>>

\* The server in an environment whose price per message may change.
NextPrice ==
    \/ Next
    \/ PriceChanged

SpecPrice == Init /\ [][NextPrice]_vars

\* The server in an environment that may lose a credential.
NextEnv ==
    \/ Next
    \/ \E k \in CredentialNames : Unconfigured(k)

SpecEnv == Init /\ [][NextEnv]_vars

\* The server with a provider whose charge ids may repeat.
NextDup ==
    \/ Next
    \/ \E p \in Procs : OpenNodeRepeatCharge(p)

SpecDup == Init /\ [][NextDup]_vars

\* ------------------------- the host-integrated variant (src/mcp_server)
\* ctx.session_config (ConfigSchema, lines 21-26), holding the values the
\* standalone variant reads from the environment
session_config ==
    [opennode_api_key |-> env.OPENNODE_API_KEY,
     twilio_account_sid |-> env.TWILIO_ACCOUNT_SID,
     twilio_auth_token |-> env.TWILIO_AUTH_TOKEN,
     twilio_phone_number |-> env.TWILIO_PHONE_NUMBER,
     sms_price_usd |-> env.SMS_PRICE_USD]

\* what ctx.session_config raises when ctx is None
NoSessionConfig ==
    [type |-> "AttributeError",
     msg |-> <<"'NoneType' object has no attribute 'session_config'">>]

\* what TwilioClient(sid, token) raises when one of them is empty
TwilioException ==
    [type |-> "TwilioException",
     msg |-> <<"Credentials are required to create a TwilioClient">>]

\* lines 95-112: read the price from the session, build the payload, post
\* it; get_opennode_headers(ctx) (41-47) tests nothing
Hosted_CreateRequest(r) ==
    IF ~r.ctx THEN Raised(r, NoSessionConfig)
    ELSE Requested([r EXCEPT !.price = session_config.sms_price_usd,
                             !.order_id = <<"sms", r.user_id,
                                            Cardinality(DOMAIN pending_sms)>>])

\* lines 74-112: the call, up to its first suspension
Hosted_create_sms_payment(p, phone_number, message, user_id, ctx) ==
    /\ CanCall(p)
    /\ ncalls' = ncalls + 1
    /\ LET r == [Idle EXCEPT !.op = "create_sms_payment", !.pc = "start",
                             !.ctx = ctx, !.phone_number = phone_number,
                             !.message = message, !.user_id = user_id]
       IN  Step(p, InfoOrGo(r, Hosted_CreateRequest(r)))
    /\ UNCHANGED <<pending_sms, heap, env, charge_status, twilio_log>>

\* lines 93-112: "await ctx.info(Creating SMS payment)" has returned
Hosted_create_sms_payment_info(p) ==
    /\ inv[p].op = "create_sms_payment"
    /\ inv[p].pc = "await_info"
    /\ Step(p, Hosted_CreateRequest(inv[p]))
    /\ UNCHANGED <<pending_sms, heap, env, charge_status, twilio_log, ncalls>>

\* Hosted_PayLookup, had the variant left out the membership test.
Hosted_PayLookup_NoLookup(r) ==
    IF ~r.ctx THEN Raised(r, NoSessionConfig) ELSE Requested(r)

\* lines 254-263: the lookup, then the status query
Hosted_PayLookup(r) ==
    IF ~Known(r.charge_id) THEN Failed(r, NotFound(r.charge_id))
    ELSE IF ~r.ctx THEN Raised(r, NoSessionConfig)
    ELSE Requested(r)

\* lines 238-263: the call, up to its first suspension
Hosted_pay_and_send_sms(p, charge_id, ctx) ==
    /\ CanCall(p)
    /\ ncalls' = ncalls + 1
    /\ LET r == Args("pay_and_send_sms", charge_id, ctx)
       IN  Step(p, InfoOrGo(r, Hosted_PayLookup(r)))
    /\ UNCHANGED <<pending_sms, heap, env, charge_status, twilio_log>>

\* lines 252-263: "await ctx.info(Checking payment)" has returned
Hosted_pay_and_send_sms_info(p) ==
    /\ inv[p].op = "pay_and_send_sms"
    /\ inv[p].pc = "await_info"
    /\ Step(p, Hosted_PayLookup(inv[p]))
    /\ UNCHANGED <<pending_sms, heap, env, charge_status, twilio_log, ncalls>>

\* lines 49-52 and 280-281: nothing is tested; the Twilio client refuses
\* empty credentials when it is built
Hosted_TwilioConfigError ==
    IF session_config.twilio_account_sid = Unset
         \/ session_config.twilio_auth_token = Unset
    THEN TwilioException
    ELSE NoExc

\* lines 283-287: Twilio rejects a message without a sender
Hosted_SendResults ==
    IF session_config.twilio_phone_number = Unset THEN {FALSE} ELSE BOOLEAN

\* lines 264-324: the response of the status query has arrived
Hosted_pay_and_send_sms_response(p) ==
    PayResponse(p, Hosted_TwilioConfigError, Hosted_SendResults)

\* lines 340-351: the lookup, the working reference, then the status query
Hosted_CheckLookup(r) ==
    IF ~Known(r.charge_id) THEN Failed(r, NotFound(r.charge_id))
    ELSE IF r.charge_id \notin DOMAIN pending_sms
    THEN Failed(r, KeyError(r.charge_id))
    ELSE LET r1 == [r EXCEPT !.sms_request = pending_sms[r.charge_id]]
         IN  IF ~r.ctx THEN Raised(r1, NoSessionConfig) ELSE Requested(r1)

\* lines 327-351: the call, up to its first suspension
Hosted_check_charge_status(p, charge_id, ctx) ==
    /\ CanCall(p)
    /\ ncalls' = ncalls + 1
    /\ Step(p, Hosted_CheckLookup(Args("check_charge_status", charge_id, ctx)))
    /\ UNCHANGED <<pending_sms, heap, env, charge_status, twilio_log>>

\* lines 189-235: the page is the standalone one without its comments
Hosted_QrLinkBody(r) ==
    IF ~Known(r.charge_id) THEN Failed(r, NotFound(r.charge_id))
    ELSE IF r.charge_id \notin DOMAIN pending_sms
    THEN Failed(r, KeyError(r.charge_id))
    ELSE LET data == Rec(r.charge_id)
             deep_link == generate_lightning_deep_link(data.lightning_invoice)
         IN  Returned(r, [kind |-> "link",
                          deep_link |-> deep_link,
                          hosted_checkout_url |-> data.hosted_checkout_url,
                          mobile_html |-> html_snippet(<< >>, deep_link,
                                                       data.hosted_checkout_url)])

\* lines 177-235: the call, up to its first suspension
Hosted_get_sms_qr_with_link(p, charge_id, ctx) ==
    /\ CanCall(p)
    /\ ncalls' = ncalls + 1
    /\ LET r == Args("get_sms_qr_with_link", charge_id, ctx)
       IN  Step(p, InfoOrGo(r, Hosted_QrLinkBody(r)))
    /\ UNCHANGED <<pending_sms, heap, env, charge_status, twilio_log>>

\* lines 187-235: "await ctx.info(Generating QR + link)" has returned
Hosted_get_sms_qr_with_link_info(p) ==
    /\ inv[p].op = "get_sms_qr_with_link"
    /\ inv[p].pc = "await_info"
    /\ Step(p, Hosted_QrLinkBody(inv[p]))
    /\ UNCHANGED <<pending_sms, heap, env, charge_status, twilio_log, ncalls>>

\* The steps of the host-integrated variant that are not those of the
\* standalone one.
HostedTools ==
    \/ \E p \in Procs, ctx \in BOOLEAN :
          \/ \E ph \in Phones, m \in Messages, u \in Users :
                Hosted_create_sms_payment(p, ph, m, u, ctx)
          \/ \E c \in ChargeIds :
                \/ Hosted_get_sms_qr_with_link(p, c, ctx)
                \/ Hosted_pay_and_send_sms(p, c, ctx)
                \/ Hosted_check_charge_status(p, c, ctx)
    \/ \E p \in Procs :
          \/ Hosted_create_sms_payment_info(p)
          \/ Hosted_get_sms_qr_with_link_info(p)
          \/ Hosted_pay_and_send_sms_info(p)
          \/ Hosted_pay_and_send_sms_response(p)

\* The steps both variants take with the same code, and the environment's.
SharedSteps ==
    \/ \E p \in Procs, ctx \in BOOLEAN, c \in ChargeIds : get_sms_qr(p, c, ctx)
    \/ \E p \in Procs :
          \/ create_sms_payment_response(p)
          \/ create_sms_payment_return(p)
          \/ get_sms_qr_info(p)
          \/ pay_and_send_sms_return(p)
          \/ check_charge_status_response(p)
          \/ ErrorLogged(p)
          \/ OpenNodeCreateCharge(p)
          \/ OpenNodeGetCharge(p)
          \/ TransportFault(p)
    \/ \E c \in ChargeIds :
          \/ ChargePaid(c)
          \/ ChargeExpired(c)

\* The host-integrated server.
NextHosted == HostedTools \/ SharedSteps

\* The session of the host-integrated server has every credential, or an
\* empty API key; the standalone server is started in the same configuration.
InitVariants ==
    /\ pending_sms = << >>
    /\ heap = << >>
    /\ env \in {FullEnv, [FullEnv EXCEPT !.OPENNODE_API_KEY = Unset]}
    /\ charge_status = [c \in ChargeIds |-> "absent"]
    /\ twilio_log = << >>
    /\ inv = [p \in Procs |-> Idle]
    /\ returned = Outcome(Idle)
    /\ ncalls = 0

\* The two variants side by side: every step is a step of one of them.
NextVariants == Next \/ HostedTools

SpecVariants == InitVariants /\ [][NextVariants]_vars

\* ------------------------------------------- a caller that keeps retrying
\* The caller invokes pay_and_send_sms again, as often as it likes (lines
\* 294-320, outside the budget of calls).
pay_and_send_sms_retry(p, charge_id, ctx) ==
    /\ inv[p].pc = "idle"
    /\ \A q \in Procs : q < p => inv[q].pc # "idle"
    /\ LET r == Args("pay_and_send_sms", charge_id, ctx)
       IN  Step(p, InfoOrGo(r, PayLookup(r)))
    /\ UNCHANGED <<pending_sms, heap, env, charge_status, twilio_log, ncalls>>

\* The sends Twilio has rejected so far.
SendFailures == Cardinality({i \in DOMAIN twilio_log : ~twilio_log[i].ok})

\* lines 321-386, with a Twilio that rejects MaxSendFailures sends at most
pay_and_send_sms_response_capped(p) ==
    PayResponse(p, TwilioConfigError,
                IF SendFailures < MaxSendFailures THEN BOOLEAN ELSE {TRUE})

\* The request times out (timeout=30.0, lines 135 and 319) or the connection
\* fails before an answer has come.
RequestFails(p) ==
    /\ inv[p].resp = NoResp
    /\ TransportFault(p)

\* The HTTP request of invocation p ends, with an answer or with a fault.
RequestEnds(p) ==
    \/ OpenNodeCreateCharge(p)
    \/ OpenNodeGetCharge(p)
    \/ RequestFails(p)

\* The event loop resumes the coroutine of invocation p.
Resumes(p) ==
    \/ create_sms_payment_info(p)
    \/ create_sms_payment_response(p)
    \/ create_sms_payment_return(p)
    \/ pay_and_send_sms_info(p)
    \/ pay_and_send_sms_response_capped(p)
    \/ pay_and_send_sms_return(p)
    \/ ErrorLogged(p)

\* OpenNode answers a status query of pay_and_send_sms on charge c with
\* "paid" (line 324).
AnswersPaid(c) ==
    \E p \in Procs :
       /\ inv[p].op = "pay_and_send_sms"
       /\ inv[p].charge_id = c
       /\ OpenNodeGetCharge(p)
       /\ inv'[p].resp.kind = "ok"
       /\ inv'[p].resp.missing = "none"
       /\ inv'[p].resp.status = "paid"

\* The caller invokes pay_and_send_sms on charge c once more.
Retries(c) == \E p \in Procs, ctx \in BOOLEAN : pay_and_send_sms_retry(p, c, ctx)

\* MaxLiveCreates charges are created and paid; the caller retries
\* pay_and_send_sms without end, on either slot and on any charge id.
NextLive ==
    \/ \E p \in Procs, ctx \in BOOLEAN, ph \in Phones, m \in Messages, u \in Users :
          ncalls < MaxLiveCreates /\ create_sms_payment(p, ph, m, u, ctx)
    \/ \E c \in ChargeIds : Retries(c)
    \/ \E p \in Procs :
          \/ create_sms_payment_info(p)
          \/ create_sms_payment_response(p)
          \/ create_sms_payment_return(p)
          \/ pay_and_send_sms_info(p)
          \/ pay_and_send_sms_response_capped(p)
          \/ pay_and_send_sms_return(p)
          \/ ErrorLogged(p)
          \/ OpenNodeCreateCharge(p)
          \/ OpenNodeGetCharge(p)
          \/ RequestFails(p)
    \/ \E c \in ChargeIds :
          \/ ChargePaid(c)
          \/ ChargeExpired(c)

\* The event loop resumes every coroutine that can run, every request ends,
\* the caller retries every charge again and again, whatever else it calls,
\* and the provider's "paid" gets through again and again.
Fairness ==
    /\ \A p \in Procs : WF_vars(Resumes(p)) /\ WF_vars(RequestEnds(p))
    /\ \A c \in ChargeIds : SF_vars(Retries(c)) /\ SF_vars(AnswersPaid(c))

SpecLive == Init /\ [][NextLive]_vars /\ Fairness

\* ------------------------------------------------------------------ claims
\* The successful sends recorded for charge c.
SendsOk(c) == {i \in DOMAIN twilio_log : twilio_log[i].charge_id = c /\ twilio_log[i].ok}

\* Invocation p is a pay_and_send_sms holding the answer of its status query.
PayHolds(p) ==
    /\ inv[p].op = "pay_and_send_sms"
    /\ inv[p].pc = "await_http"
    /\ inv[p].resp.kind = "ok"
    /\ inv[p].resp.missing # "status"

\* The handler of invocation p runs in this step (not the provider).
Runs(p) == inv'[p].pc # inv[p].pc

\* C1: the Delivery Adapter is called only by a pay_and_send_sms invocation
\* whose own status query answered "paid", and for the charge of that call.
C1_PaymentGating ==
    [][twilio_log' # twilio_log =>
         \E p \in Procs :
            /\ PayHolds(p)
            /\ inv[p].resp.status = "paid"
            /\ Runs(p)
            /\ Len(twilio_log') = Len(twilio_log) + 1
            /\ SubSeq(twilio_log', 1, Len(twilio_log)) = twilio_log
            /\ twilio_log'[Len(twilio_log')].charge_id = inv[p].charge_id]_vars

C1_Witness == \E i \in DOMAIN twilio_log : twilio_log[i].status = "paid"

\* C2: no charge is ever delivered successfully more than once, however the
\* pay_and_send_sms invocations on it interleave; a call that reports the
\* message as sent finds exactly one successful send for its charge.
C2_AtMostOnce ==
    /\ \A c \in ChargeIds : Cardinality(SendsOk(c)) <= 1
    /\ (returned.op = "pay_and_send_sms" /\ returned.result.kind = "report"
          /\ returned.result.sms_sent)
       => Cardinality(SendsOk(returned.charge_id)) = 1

\* Two calls on one charge overlap: one holds the answer "paid" of its query
\* while the other has already sent the message.
C2_Witness ==
    \E p \in Procs :
       /\ PayHolds(p)
       /\ inv[p].resp.status = "paid"
       /\ SendsOk(inv[p].charge_id) # {}

\* C3: every pay_and_send_sms result with sms_sent = true carries the receipt
\* id of the one successful send of its charge.
C3_SameReceipt ==
    (returned.op = "pay_and_send_sms" /\ returned.result.kind = "report"
       /\ returned.result.sms_sent)
    => /\ "sms_sid" \in DOMAIN returned.result
       /\ returned.result.sms_sid = Rec(returned.charge_id).sms_sid
       /\ Cardinality(SendsOk(returned.charge_id)) = 1

\* C4: in every state a coroutine can observe, a record with sent = true has
\* its receipt id and status "completed", and a "completed" record is sent.
C4_RecordInvariant ==
    \A c \in DOMAIN pending_sms :
       /\ Rec(c).sent => (Rec(c).sms_sid # NoSid /\ Rec(c).status = "completed")
       /\ Rec(c).status = "completed" => Rec(c).sent

C4_Witness == \E c \in DOMAIN pending_sms : Rec(c).sent

\* C5: a pay_and_send_sms call that sees "paid" for a record not yet sent
\* calls the Delivery Adapter; when that call fails the invocation fails with
\* the error and the record stays unsent, pending and without receipt.
C5_DeliveryFailureRetryable ==
    [][\A p \in Procs :
         (/\ PayHolds(p)
          /\ inv[p].resp.status = "paid"
          /\ Runs(p)
          /\ ~Rec(inv[p].charge_id).sent
          /\ env.TWILIO_ACCOUNT_SID # Unset
          /\ env.TWILIO_AUTH_TOKEN # Unset
          /\ env.TWILIO_PHONE_NUMBER # Unset)
         => /\ Len(twilio_log') = Len(twilio_log) + 1
            /\ twilio_log'[Len(twilio_log')].charge_id = inv[p].charge_id
            /\ ~twilio_log'[Len(twilio_log')].ok =>
                 /\ heap' = heap
                 /\ pending_sms' = pending_sms
                 /\ ~Rec(inv[p].charge_id).sent
                 /\ Rec(inv[p].charge_id).status = "pending"
                 /\ Rec(inv[p].charge_id).sms_sid = NoSid
                 /\ IF inv[p].ctx
                    THEN inv'[p].pc = "await_error" /\ inv'[p].exc = TwilioRestException
                    ELSE returned'.result = [kind |-> "error", exc |-> TwilioRestException]]_vars

\* A failed send for a charge was followed by another send for it.
C5_Witness ==
    \E i, j \in DOMAIN twilio_log :
       /\ i < j
       /\ twilio_log[i].charge_id = twilio_log[j].charge_id
       /\ ~twilio_log[i].ok

\* C6: a pay_and_send_sms call whose query answers a status other than "paid"
\* returns paid = false with that status, sends nothing and leaves the
\* registry as it is.
C6_UnpaidNoSideEffects ==
    [][\A p \in Procs :
         (PayHolds(p) /\ inv[p].resp.status # "paid" /\ Runs(p))
         => /\ returned'.op = "pay_and_send_sms"
            /\ returned'.charge_id = inv[p].charge_id
            /\ returned'.result.kind = "report"
            /\ returned'.result.paid = FALSE
            /\ returned'.result.sms_sent = FALSE
            /\ returned'.result.status = inv[p].resp.status
            /\ returned'.nsend = 0
            /\ UNCHANGED <<pending_sms, heap, twilio_log>>]_vars

C6_Witness ==
    /\ returned.op = "pay_and_send_sms"
    /\ returned.result.kind = "report"
    /\ ~returned.result.paid
    /\ returned.result.status = "expired"

\* C7: a create_sms_payment invocation that ends in an error has written no
\* record to the registry.
C7_FailedCreationWritesNothing ==
    (returned.op = "create_sms_payment" /\ returned.result.kind = "error")
    => ~returned.wrote

\* The tools that look their charge id up in the registry.
LookupOps == {"get_sms_qr", "get_sms_qr_with_link", "pay_and_send_sms",
              "check_charge_status"}

\* What a caller gets for a charge id that is no key of the registry.
NotFoundOutcome(op, c) ==
    [op |-> op, charge_id |-> c,
     result |-> [kind |-> "error",
                 exc |-> [type |-> "ValueError", msg |-> <<"Charge", c, "not found">>]],
     nreq |-> 0, nsend |-> 0, wrote |-> FALSE]

\* C8: when one of the four lookup tools reaches its lookup with a charge id
\* that is no key of the registry, it fails with "Charge ... not found", has
\* issued no request to the provider or the Delivery Adapter, and leaves the
\* registry as it is.  The lookup runs after "await ctx.info" when there is a
\* ctx, and in the step of the call otherwise.
C8_UnknownChargeNotFound ==
    [][/\ \A p \in Procs :
            (/\ inv[p].op \in LookupOps
             /\ inv[p].pc = "await_info"
             /\ Runs(p)
             /\ inv[p].charge_id \notin DOMAIN pending_sms)
            => /\ returned' = NotFoundOutcome(inv[p].op, inv[p].charge_id)
               /\ inv'[p].pc = "idle"
               /\ UNCHANGED <<pending_sms, heap, twilio_log>>
       /\ ncalls' # ncalls =>
            /\ \A p \in Procs :
                  (/\ inv'[p] # inv[p]
                   /\ inv'[p].op \in LookupOps
                   /\ inv'[p].pc # "await_info")
                  => inv'[p].charge_id \in DOMAIN pending_sms
            /\ (/\ inv' = inv
                /\ returned'.op \in LookupOps
                /\ returned'.charge_id \notin DOMAIN pending_sms)
               => /\ returned' = NotFoundOutcome(returned'.op, returned'.charge_id)
                  /\ UNCHANGED <<pending_sms, heap, twilio_log>>]_vars

C8_Witness ==
    /\ DOMAIN pending_sms # {}
    /\ returned.op \in LookupOps
    /\ returned = NotFoundOutcome(returned.op, returned.charge_id)

\* C9: a pay_and_send_sms call that resumes from its status query when its
\* record is already sent changes nothing and reports status "completed",
\* sms_sent = true and the receipt id of the record, whatever the query
\* answered.
C9_CompletedAbsorbing ==
    [][\A p \in Procs :
         (/\ inv[p].op = "pay_and_send_sms"
          /\ inv[p].pc = "await_http"
          /\ inv[p].resp # NoResp
          /\ Runs(p)
          /\ Rec(inv[p].charge_id).sent)
         => /\ inv'[p].pc = "idle"
            /\ returned'.op = "pay_and_send_sms"
            /\ returned'.result.kind = "report"
            /\ returned'.result.status = "completed"
            /\ returned'.result.sms_sent
            /\ "sms_sid" \in DOMAIN returned'.result
            /\ returned'.result.sms_sid = Rec(inv[p].charge_id).sms_sid
            /\ UNCHANGED <<pending_sms, heap, twilio_log>>]_vars

\* The tools meant to only read.
ReadOps == {"check_charge_status", "get_sms_qr", "get_sms_qr_with_link"}

\* C10: no step of a check_charge_status, get_sms_qr or get_sms_qr_with_link
\* invocation, from its call to its result or error, changes the registry or
\* a record, or calls the Delivery Adapter.
C10_ReadOnly ==
    [][(\/ \E p \in Procs : inv[p].op \in ReadOps /\ inv'[p] # inv[p]
        \/ /\ ncalls' # ncalls
           /\ \/ \E p \in Procs : inv'[p] # inv[p] /\ inv'[p].op \in ReadOps
              \/ inv' = inv /\ returned'.op \in ReadOps)
       => UNCHANGED <<pending_sms, heap, twilio_log>>]_vars

\* A status report was returned for a charge whose record another call has
\* marked as sent.
C10_Witness ==
    /\ returned.op = "check_charge_status"
    /\ returned.result.kind = "status"
    /\ returned.result.sms_sent

\* A check_charge_status invocation p returns its status report in this step.
ReportsStatus(p) ==
    /\ inv[p].op = "check_charge_status"
    /\ Runs(p)
    /\ inv'[p].pc = "idle"
    /\ returned'.op = "check_charge_status"
    /\ returned'.result.kind = "status"

\* create_sms_payment invocation p inserts its record in this step.
Inserts(p) ==
    /\ inv[p].op = "create_sms_payment"
    /\ inv[p].pc = "await_http"
    /\ Runs(p)
    /\ heap' # heap

\* C11: the record a successful create_sms_payment inserts holds the phone
\* number given to the call and the price it read, unsent and pending; a
\* check_charge_status on that charge reports the status the provider
\* answered, the record's phone number and amount, and sms_sent = false as
\* long as no message was delivered for the charge.
C11_FreshChargeStatus ==
    [][\A p \in Procs :
         /\ Inserts(p) =>
               LET rec == heap'[Len(heap')]
               IN  /\ rec.phone_number = inv[p].phone_number
                   /\ rec.amount = inv[p].price
                   /\ ~rec.sent
                   /\ rec.status = "pending"
         /\ ReportsStatus(p) =>
               LET c == inv[p].charge_id
                   res == returned'.result
               IN  /\ res.charge_id = c
                   /\ res.payment_status = inv[p].resp.status
                   /\ res.phone_number = Rec(c).phone_number
                   /\ res.amount = Rec(c).amount
                   /\ SendsOk(c) = {} => ~res.sms_sent]_vars

\* A charge was created and its status checked at once (two calls in all):
\* the report is unpaid and unsent.
C11_Witness ==
    /\ ncalls = 2
    /\ returned.op = "check_charge_status"
    /\ returned.result.kind = "status"
    /\ returned.result.payment_status = "unpaid"
    /\ ~returned.result.sms_sent
    /\ returned.result.phone_number \in Phones
    /\ returned.result.amount = env.SMS_PRICE_USD

\* create_sms_payment invocation p resumes in this step with a well-formed
\* answer whose charge id is already a key of the registry.
InsertsDuplicate(p) ==
    /\ inv[p].op = "create_sms_payment"
    /\ inv[p].pc = "await_http"
    /\ Runs(p)
    /\ inv[p].resp.kind = "ok"
    /\ inv[p].resp.missing \notin {"id", "hosted_checkout_url"}
    /\ inv[p].resp.id \in DOMAIN pending_sms

\* The exception invocation p ends with in this step, if any.
RaisedBy(p) ==
    IF inv'[p].pc = "await_error" THEN inv'[p].exc
    ELSE IF inv'[p].pc = "idle" /\ returned'.result.kind = "error"
    THEN returned'.result.exc
    ELSE NoExc

\* C12: a create_sms_payment that is handed a charge id already in the
\* registry fails with a duplicate-key error and leaves the registry, hence
\* the existing record with its sent flag, status and receipt id, as it was.
C12_DuplicateKeyRejected ==
    [][\A p \in Procs :
         InsertsDuplicate(p) =>
            /\ pending_sms' = pending_sms
            /\ heap' = heap
            /\ RaisedBy(p).type = "DuplicateKey"]_vars

\* The operations that query the status of a charge.
QueryOps == {"pay_and_send_sms", "check_charge_status", "check_payment"}

\* Invocation p resumes in this step from a status query that failed.
QueryFailed(p) ==
    /\ inv[p].op \in QueryOps
    /\ inv[p].pc = "await_http"
    /\ Runs(p)
    /\ inv[p].resp.kind \in {"http_error", "fault"}

\* C13: a status query answered with a non-success HTTP response or cut by a
\* transport fault makes pay_and_send_sms, check_charge_status and
\* OpenNodeClient.check_payment raise instead of returning a payment status,
\* and for a non-success response the error is the one create_sms_payment
\* raises, carrying the status code and the body text.
C13_UpstreamQueryErrors ==
    [][\A p \in Procs :
         QueryFailed(p) =>
            /\ RaisedBy(p) # NoExc
            /\ inv[p].resp.kind = "http_error"
                  => RaisedBy(p) = UpstreamValueError(inv[p].resp)]_vars

\* The tools that query the charge provider.
KeyOps == {"create_sms_payment", "pay_and_send_sms", "check_charge_status"}

\* Slot p takes this step: its invocation goes on, or a call starts in it
\* (and may be over at once).
Acts(p) ==
    \/ inv'[p] # inv[p]
    \/ ncalls' > ncalls /\ inv' = inv /\ CanCall(p)

\* The tool that acts in slot p in this step.
OpOf(p) ==
    IF inv[p].pc # "idle" THEN inv[p].op
    ELSE IF inv'[p].pc # "idle" THEN inv'[p].op
    ELSE returned'.op

\* In this step the invocation in slot p comes to the point where it needs
\* the OpenNode API key: it is past the first ctx.info and past the lookup.
NeedsApiKey(p) ==
    /\ Acts(p)
    /\ OpOf(p) \in KeyOps
    /\ inv[p].pc \in {"idle", "await_info"}
    /\ inv'[p].pc # "await_info"
    /\ RaisedBy(p) \notin {NotFound(c) : c \in ChargeIds}

\* In this step a pay_and_send_sms in slot p comes to the point where it needs
\* the Twilio credentials: its charge is paid and its record is unsent.
NeedsTwilio(p) ==
    /\ PayHolds(p)
    /\ Runs(p)
    /\ inv[p].resp.status = "paid"
    /\ inv[p].charge_id \in DOMAIN pending_sms
    /\ ~Rec(inv[p].charge_id).sent

ChargeOf(p) ==
    IF inv[p].op = "create_sms_payment"
    THEN IF inv[p].resp.kind = "ok" THEN inv[p].resp.id ELSE NoChargeId
    ELSE inv[p].charge_id

\* C15: a step changes the registry record of a charge only if it is a step
\* of an invocation on that charge, whether the invocation succeeds or fails;
\* an invocation that fails frees its slot and leaves every other invocation
\* as it was.
C15_ErrorIsolation ==
    [][/\ \A c \in DOMAIN pending_sms :
            \/ /\ c \in DOMAIN pending_sms'
               /\ heap'[pending_sms'[c]] = heap[pending_sms[c]]
            \/ \E p \in Procs : Runs(p) /\ ChargeOf(p) = c
       /\ \A p \in Procs :
            (Acts(p) /\ inv'[p].pc = "idle" /\ returned'.result.kind = "error")
            => /\ inv'[p] = Idle
               /\ \A q \in Procs \ {p} : inv'[q] = inv[q]]_vars

\* A pay_and_send_sms whose delivery failed has ended while the registry
\* holds another charge and another invocation is in flight.
C15_Witness ==
    /\ returned.op = "pay_and_send_sms"
    /\ returned.result.kind = "error"
    /\ returned.nsend = 1
    /\ \E c \in DOMAIN pending_sms : c # returned.charge_id
    /\ \E p \in Procs : inv[p].pc # "idle"

\* C16: a charge id that is a key of the registry is a key in every later
\* state: no step removes a key.
C16_NoDeletion ==
    [][DOMAIN pending_sms \subseteq DOMAIN pending_sms']_vars

\* The registry holds two charges, one of them delivered, after every call
\* of the budget was made.
C16_Witness ==
    /\ Cardinality(DOMAIN pending_sms) = 2
    /\ \E c \in DOMAIN pending_sms : Rec(c).sent
    /\ ncalls = MaxCalls

\* create_sms_payment invocation p reads the price and posts its request in
\* this step.
PostsCharge(p) ==
    /\ inv'[p].op = "create_sms_payment"
    /\ inv'[p].pc = "await_http"
    /\ inv[p].pc \in {"idle", "await_info"}

\* C17: the amount of a record is the price its create_sms_payment call read
\* from the configuration, no step changes the amount of a record, and
\* check_charge_status reports the record's amount, whatever the configured
\* price is by then.
C17_PriceFixedAtCreation ==
    [][/\ \A p \in Procs :
            /\ PostsCharge(p) => inv'[p].price = env.SMS_PRICE_USD
            /\ Inserts(p) => heap'[Len(heap')].amount = inv[p].price
            /\ ReportsStatus(p) =>
                  returned'.result.amount = Rec(inv[p].charge_id).amount
       /\ \A c \in DOMAIN pending_sms :
            /\ c \in DOMAIN pending_sms'
            /\ heap'[pending_sms'[c]].amount = Rec(c).amount]_vars

\* check_charge_status has reported the amount of a charge created before
\* the price was changed.
C17_Witness ==
    /\ returned.op = "check_charge_status"
    /\ returned.result.kind = "status"
    /\ returned.result.amount = FullEnv.SMS_PRICE_USD
    /\ env.SMS_PRICE_USD = RaisedPrice

\* The invocation acting in slot p may have been called with a Context: it
\* was, if it is suspended before or after the step; a call that is over at
\* once can have had one only if it is check_charge_status failing its lookup.
MayHaveCtx(p) ==
    IF inv[p].pc # "idle" THEN inv[p].ctx
    ELSE IF inv'[p].pc # "idle" THEN inv'[p].ctx
    ELSE /\ returned'.op = "check_charge_status"
         /\ returned'.result.kind = "error"
         /\ returned'.result.exc = NotFound(returned'.charge_id)

\* get_sms_qr_with_link returns its page from slot p in this step.
ReturnsPage(p) ==
    /\ OpOf(p) = "get_sms_qr_with_link"
    /\ inv'[p].pc = "idle"
    /\ returned'.result.kind = "link"

\* C18 (as stated): every step of the standalone variant is a step of the
\* host-integrated variant and conversely, so that from the same
\* configuration and under the same answers both go through the same
\* registry states, results and errors.
C18_VariantEquivalence ==
    [][Next <=> NextHosted]_vars

\* C18 (amended): with every credential set, the steps of invocations called
\* with a Context are the same in both variants, registry, results and
\* errors included, except the page get_sms_qr_with_link returns.
C18_VariantsAgreeWithCtx ==
    [][(/\ env = FullEnv
        /\ \A p \in Procs : Acts(p) => (MayHaveCtx(p) /\ ~ReturnsPage(p)))
       => (Next <=> NextHosted)]_vars

\* With every credential set, a pay_and_send_sms called with a Context has
\* delivered its message and is about to return.
C18_Witness ==
    /\ env = FullEnv
    /\ \E p \in Procs :
          /\ inv[p].op = "pay_and_send_sms"
          /\ inv[p].pc = "await_info2"
          /\ inv[p].ctx
          /\ Rec(inv[p].charge_id).sent

\* The message of charge c is delivered in this step: the send log gains a
\* successful entry for c.
Delivers(c) ==
    /\ Len(twilio_log') = Len(twilio_log) + 1
    /\ twilio_log'[Len(twilio_log')].charge_id = c
    /\ twilio_log'[Len(twilio_log')].ok

\* C19: a step that changes the record of a charge already in the registry
\* is a pay_and_send_sms step that delivers the message of that charge, and
\* the change is exactly sent := true, status := "completed" and the receipt
\* id of that delivery, every other field staying as it was; every
\* successful delivery makes that change.
C19_SoleMutationPath ==
    [][\A c \in DOMAIN pending_sms :
         /\ c \in DOMAIN pending_sms'
         /\ heap'[pending_sms'[c]] # Rec(c) =>
               /\ \E p \in Procs :
                     PayHolds(p) /\ Runs(p) /\ inv[p].charge_id = c
               /\ Delivers(c)
               /\ heap'[pending_sms'[c]] =
                     [Rec(c) EXCEPT !.sent = TRUE, !.status = "completed",
                                    !.sms_sid = twilio_log'[Len(twilio_log')].sid]
         /\ Delivers(c) => heap'[pending_sms'[c]] # Rec(c)]_vars

\* C20: a record that is sent and "completed" stays so, with the same
\* receipt id, through every step, and the status of a record changes only
\* from "pending" to "completed".
C20_DeliveredMonotonic ==
    [][\A c \in DOMAIN pending_sms :
         /\ c \in DOMAIN pending_sms'
         /\ (Rec(c).sent /\ Rec(c).status = "completed") =>
               /\ heap'[pending_sms'[c]].sent
               /\ heap'[pending_sms'[c]].status = "completed"
               /\ heap'[pending_sms'[c]].sms_sid = Rec(c).sms_sid
         /\ heap'[pending_sms'[c]].status # Rec(c).status =>
               /\ Rec(c).status = "pending"
               /\ heap'[pending_sms'[c]].status = "completed"]_vars

\* C21: under the fairness of SpecLive (the caller keeps retrying, the
\* provider's "paid" gets through, Twilio does not reject for ever, every
\* credential is set), a charge of the registry that is paid is eventually
\* sent with status "completed", and stays so for ever.
C21_EventualFulfillment ==
    \A c \in ChargeIds :
       (c \in DOMAIN pending_sms /\ charge_status[c] = "paid")
       ~> [](/\ c \in DOMAIN pending_sms
             /\ Rec(c).sent
             /\ Rec(c).status = "completed")

\* A charge was delivered by a retry, after Twilio had rejected a first send
\* of its message.
C21_Witness ==
    \E c \in DOMAIN pending_sms :
       /\ Rec(c).sent
       /\ Rec(c).status = "completed"
       /\ \E i \in DOMAIN twilio_log :
             twilio_log[i].charge_id = c /\ ~twilio_log[i].ok

\* C22: a status report of check_charge_status that says sms_sent = true
\* says payment_status = "paid" (the provider's status never leaves "paid":
\* no action of the provider changes a paid charge).
C22_ConsistentStatus ==
    (/\ returned.op = "check_charge_status"
     /\ returned.result.kind = "status"
     /\ returned.result.sms_sent)
    => returned.result.payment_status = "paid"

\* create_sms_payment invocation p has posted its payload, order reference
\* included, and has not yet returned.
HasPosted(p) ==
    /\ inv[p].op = "create_sms_payment"
    /\ inv[p].nreq > 0

\* C23: two create_sms_payment calls of one user_id that have both posted
\* their payload have sent distinct order references.
C23_DistinctOrderReferences ==
    \A p, q \in Procs :
       (/\ p # q
        /\ HasPosted(p)
        /\ HasPosted(q)
        /\ inv[p].user_id = inv[q].user_id)
       => inv[p].order_id # inv[q].order_id

\* The requests to OpenNode and the sends through Twilio that an invocation
\* (in progress or just returned) has issued are at most one each, and only
\* pay_and_send_sms sends.
AtMostOnce(r) ==
    /\ r.nreq <= 1
    /\ r.nsend <= 1
    /\ r.op # "pay_and_send_sms" => r.nsend = 0

\* C24: an invocation of create_sms_payment, pay_and_send_sms or
\* check_charge_status issues at most one request to OpenNode and, for
\* pay_and_send_sms, at most one Twilio send, whether they fail or not.
C24_NoInternalRetries ==
    /\ \A p \in Procs : AtMostOnce(inv[p])
    /\ AtMostOnce(returned)

\* A pay_and_send_sms call has ended in an error after one status query and
\* one send that Twilio rejected.
C24_Witness ==
    /\ returned.op = "pay_and_send_sms"
    /\ returned.result.kind = "error"
    /\ returned.result.exc = TwilioRestException
    /\ returned.nreq = 1
    /\ returned.nsend = 1
    /\ \E i \in DOMAIN twilio_log :
          twilio_log[i].charge_id = returned.charge_id /\ ~twilio_log[i].ok

====
